---- MODULE Spec2Model ----
(***************************************************************************)
(* Model of the daily_data store of AICASE: the point updates, the bulk    *)
(* mutators, the cumulative inventory recalculation (db_utils.py) and the  *)
(* forecast persistence of the agent tools (agents/agentsscm.py,           *)
(* forecast_utils.py).                                                     *)
(*                                                                         *)
(* A date is its day number: ISO YYYY-MM-DD strings compare as the         *)
(* calendar does, and timedelta(days=1) is +1.  A forecast value is kept   *)
(* in hundredths (round(x, 2) * 100), the forecast column as a set that is *)
(* empty for NULL.                                                         *)
(*                                                                         *)
(* Spec is the store under the calls made one after the other; SpecFail    *)
(* adds calls during which a statement raises, SpecDates the agent tools   *)
(* given dates as callers write them, SpecConcurrent two point updates     *)
(* that interleave statement by statement.                                 *)
(***************************************************************************)
EXTENDS Integers, Sequences, FiniteSets, TLC

\* ---- bounds of the model ----
NumDates == 3
MaxDays == 2
MaxPeriods == 2
MaxSteps == 3

\* ---- program constants ----
RandLow == 50
RandHigh == 150
DefaultWindow == 3
MinHeuristicObs == 10

Dates == 1..NumDates
\* the values np.random.randint(50, 150) is let to draw for demand and
\* production_plan, and for forecast
GenValues == {v \in RandLow..(RandHigh - 1) : v <= RandLow + 1}
GenForecastValues == {v \in RandLow..(RandHigh - 1) : v = RandLow + 2}
\* the values a caller passes to a point update
UpdateValues == {0, 53}
\* the offsets a caller passes to increase_all_demand
Offsets == {-60, 0, 1}
Methods == {"moving_average", "exponential_smoothing"}
NoDate == 0
NULL == {}
\* the reader of the whole table as the forecast code is given it: NoLimit is
\* db_utils.get_daily_data itself, a date is the reader the tests patch in
NoLimit == 0
Limits == {NoLimit} \cup (1..(NumDates - 1))

\* the callers that run a point update at the same time
Callers == {1, 2}

VARIABLES daily_data, pre, lastOp, steps, callers

vars == <<daily_data, pre, lastOp, steps, callers>>

\* ---- helpers over a table (a function from its stored dates to rows) ----
StoredDates(t) == DOMAIN t

SetMax(S) == CHOOSE x \in S : \A y \in S : y <= x

SetMin(S) == CHOOSE x \in S : \A y \in S : x <= y

Row(dem, plan, fc, inv) ==
    [demand |-> dem, production_plan |-> plan, forecast |-> fc, inventory |-> inv]

\* SELECT inventory FROM daily_data WHERE date < ? ORDER BY date DESC LIMIT 1
PrevInventory(t, d) ==
    LET before == {e \in StoredDates(t) : e < d}
    IN  IF before = {} THEN 0 ELSE t[SetMax(before)].inventory

\* a carry-in read with date <= start instead of date < start
RecalculateCarryIn_Inclusive(t, start) ==
    LET upto == {e \in StoredDates(t) : e <= start}
    IN  IF upto = {} THEN 0 ELSE t[SetMax(upto)].inventory

\* a running inventory that always starts from 0
RecalculateCarryIn_Zero(t, start) == 0

\* recalculate_inventory_from: the running inventory it starts from
RecalculateCarryIn(t, start) == PrevInventory(t, start)

\* the running inventory the loop of recalculate_inventory_from holds after
\* it has written the row of date d (d >= start)
RECURSIVE RunningInventory(_, _, _)
RunningInventory(t, start, d) ==
    LET before == {e \in StoredDates(t) : start <= e /\ e < d}
        running == IF before = {} THEN RecalculateCarryIn(t, start)
                   ELSE RunningInventory(t, start, SetMax(before))
    IN  running + t[d].production_plan - t[d].demand

\* a recalculation that writes the row of start only
RecalculatedFrom_OnlyStart(t, start) ==
    [d \in StoredDates(t) |->
        IF d = start
        THEN [t[d] EXCEPT !.inventory = RunningInventory(t, start, d)]
        ELSE t[d]]

\* a recalculation that always runs over the whole table
RecalculatedFrom_WholeTable(t, start) ==
    [d \in StoredDates(t) |->
        [t[d] EXCEPT !.inventory = RunningInventory(t, SetMin(StoredDates(t)), d)]]

\* the table after recalculate_inventory_from(start) has committed
RecalculatedFrom(t, start) ==
    [d \in StoredDates(t) |->
        IF d >= start
        THEN [t[d] EXCEPT !.inventory = RunningInventory(t, start, d)]
        ELSE t[d]]

\* ---- the record of the last call ----
Call(op, date, value, days, ret, fc, method, limit) ==
    [op |-> op, date |-> date, value |-> value, days |-> days, ret |-> ret,
     forecast |-> fc, method |-> method, limit |-> limit,
     window |-> DefaultWindow, end |-> NoDate, result |-> <<>>,
     failed |-> "", input |-> <<>>, key |-> <<>>]

\* a caller that is not inside a call
Idle ==
    [pc |-> "idle", column |-> "", date |-> NoDate, value |-> 0, carry |-> 0,
     rows |-> <<>>]

Init ==
    /\ daily_data = <<>>
    /\ pre = <<>>
    /\ lastOp = Call("init", NoDate, 0, 0, "", <<>>, "", NoDate)
    /\ steps = 0
    /\ callers = [c \in Callers |-> Idle]

Done(t, call) ==
    /\ steps < MaxSteps
    /\ steps' = steps + 1
    /\ pre' = daily_data
    /\ daily_data' = t
    /\ lastOp' = call
    /\ UNCHANGED callers

\* UPDATE daily_data SET <column> = ? WHERE date = ?
SetDemand(t, d, v) ==
    IF d \in StoredDates(t) THEN [t EXCEPT ![d].demand = v] ELSE t

SetProductionPlan(t, d, v) ==
    IF d \in StoredDates(t) THEN [t EXCEPT ![d].production_plan = v] ELSE t

\* a forecast write that inserts the row it does not find
SetForecast_Upsert(t, d, v) ==
    [e \in StoredDates(t) \cup {d} |->
        IF e = d
        THEN IF d \in StoredDates(t) THEN [t[d] EXCEPT !.forecast = {v}]
             ELSE Row(0, 0, {v}, 0)
        ELSE t[e]]

SetForecast(t, d, v) ==
    IF d \in StoredDates(t) THEN [t EXCEPT ![d].forecast = {v}] ELSE t

\* db_utils.update_demand
UpdateDemandResult(t, d, v) ==
    IF d \notin StoredDates(t) THEN t
    ELSE RecalculatedFrom(SetDemand(t, d, v), d)

update_demand ==
    \E d \in Dates, v \in UpdateValues :
        Done(UpdateDemandResult(daily_data, d, v),
             Call("update_demand", d, v, 0,
                  IF d \in StoredDates(daily_data) THEN "updated" ELSE "not_found",
                  <<>>, "", NoDate))

\* db_utils.update_production_plan
UpdateProductionPlanResult(t, d, v) ==
    IF d \notin StoredDates(t) THEN t
    ELSE RecalculatedFrom(SetProductionPlan(t, d, v), d)

update_production_plan ==
    \E d \in Dates, v \in UpdateValues :
        Done(UpdateProductionPlanResult(daily_data, d, v),
             Call("update_production_plan", d, v, 0,
                  IF d \in StoredDates(daily_data) THEN "updated" ELSE "not_found",
                  <<>>, "", NoDate))

\* db_utils.recalculate_inventory_from, called on its own
recalculate_inventory_from ==
    \E d \in Dates :
        Done(RecalculatedFrom(daily_data, d),
             Call("recalculate_inventory_from", d, 0, 0, "done", <<>>, "", NoDate))

\* a forecast write that lands in the demand column
UpdateForecastResult_IntoDemand(t, d, v) == SetDemand(t, d, v)

\* db_utils.update_forecast
UpdateForecastResult(t, d, v) == SetForecast(t, d, v)

update_forecast ==
    \E d \in Dates, v \in UpdateValues :
        Done(UpdateForecastResult(daily_data, d, v),
             Call("update_forecast", d, v, 0,
                  IF d \in StoredDates(daily_data) THEN "updated" ELSE "not_found",
                  <<>>, "", NoDate))

\* db_utils.get_daily_data(date): the rows of one date
GetDailyDataOf(t, d) == {e \in StoredDates(t) : e = d}

\* agentsscm.update_demand: the tool checks that the date has data first
ToolUpdateDemandResult(t, d, v) ==
    IF GetDailyDataOf(t, d) = {} THEN t ELSE UpdateDemandResult(t, d, v)

tool_update_demand ==
    \E d \in Dates, v \in UpdateValues :
        Done(ToolUpdateDemandResult(daily_data, d, v),
             Call("tool_update_demand", d, v, 0,
                  IF GetDailyDataOf(daily_data, d) = {} THEN "error" ELSE "updated",
                  <<>>, "", NoDate))

\* agentsscm.update_production_plan
ToolUpdateProductionPlanResult(t, d, v) ==
    IF GetDailyDataOf(t, d) = {} THEN t ELSE UpdateProductionPlanResult(t, d, v)

tool_update_production_plan ==
    \E d \in Dates, v \in UpdateValues :
        Done(ToolUpdateProductionPlanResult(daily_data, d, v),
             Call("tool_update_production_plan", d, v, 0,
                  IF GetDailyDataOf(daily_data, d) = {} THEN "error" ELSE "updated",
                  <<>>, "", NoDate))

\* an offset of 0 that is applied and recalculated like any other
IncreaseAllDemandResult_ZeroApplied(t, offset) ==
    IF StoredDates(t) = {} THEN t
    ELSE RecalculatedFrom(
             [d \in StoredDates(t) |-> [t[d] EXCEPT !.demand = t[d].demand + offset]],
             SetMin(StoredDates(t)))

\* db_utils.increase_all_demand
IncreaseAllDemandResult(t, offset) ==
    IF offset = 0 \/ StoredDates(t) = {} THEN t
    ELSE RecalculatedFrom(
             [d \in StoredDates(t) |-> [t[d] EXCEPT !.demand = t[d].demand + offset]],
             SetMin(StoredDates(t)))

increase_all_demand ==
    \E offset \in Offsets :
        Done(IncreaseAllDemandResult(daily_data, offset),
             Call("increase_all_demand", NoDate, offset, Cardinality(StoredDates(daily_data)),
                  IF offset = 0 THEN "zero_offset"
                  ELSE IF StoredDates(daily_data) = {} THEN "no_data"
                  ELSE "increased",
                  <<>>, "", NoDate))

\* the inventory list generate_future_data computes before it writes:
\* inventory[i] for the i-th generated day (i = 1..days)
RECURSIVE GeneratedInventory(_, _, _, _)
GeneratedInventory(carry, demand, production_plan, i) ==
    IF i = 0 THEN carry
    ELSE GeneratedInventory(carry, demand, production_plan, i - 1)
             + production_plan[i] - demand[i]

\* a running inventory that always starts from 0
GenerateCarryIn_Zero(t, start) == 0

\* generate_future_data: the running inventory it starts from
GenerateCarryIn(t, start) == PrevInventory(t, start)

\* db_utils.generate_future_data: insert or update each date of the range
GenerateFutureDataResult(t, start, days, demand, production_plan, forecast) ==
    LET carry == GenerateCarryIn(t, start)
        range == start..(start + days - 1)
    IN  [d \in StoredDates(t) \cup range |->
            IF d \in range
            THEN \* UPDATE and INSERT write the same four columns
                 Row(demand[d - start + 1], production_plan[d - start + 1],
                     {forecast[d - start + 1]},
                     GeneratedInventory(carry, demand, production_plan, d - start + 1))
            ELSE t[d]]

\* an INSERT for every date of the range, found or not
GenerateInserted_WholeRange(t, start, days) == start..(start + days - 1)

\* the dates generate_future_data finds no row for (COUNT(*) = 0) and INSERTs
GenerateInserted(t, start, days) ==
    {d \in start..(start + days - 1) : Cardinality(GetDailyDataOf(t, d)) = 0}

generate_future_data ==
    \E start \in Dates, days \in 1..MaxDays :
        /\ start + days - 1 <= NumDates
        /\ \E demand \in [1..days -> GenValues],
              production_plan \in [1..days -> GenValues],
              forecast \in [1..days -> GenForecastValues] :
                Done(GenerateFutureDataResult(daily_data, start, days,
                                              demand, production_plan, forecast),
                     Call("generate_future_data", start,
                          Cardinality(GenerateInserted(daily_data, start, days)),
                          days, "generated", <<>>, "", NoDate))

\* a delete that spares the row of the latest date
DeleteAllDataResult_KeepsLatest(t) ==
    [d \in {e \in StoredDates(t) : e = SetMax(StoredDates(t))} |-> t[d]]

\* db_utils.delete_all_data: DELETE FROM daily_data
DeleteAllDataResult(t) == <<>>

delete_all_data ==
    Done(DeleteAllDataResult(daily_data),
         Call("delete_all_data", NoDate, Cardinality(StoredDates(daily_data)), 0,
              "deleted", <<>>, "", NoDate))

\* db_utils.get_daily_data(): every row, in date order
GetDailyData(t, limit) ==
    IF limit = NoLimit THEN t
    ELSE [d \in {e \in StoredDates(t) : e <= limit} |-> t[d]]

\* the demand column of the rows in ascending date order
RECURSIVE DemandHistory(_)
DemandHistory(data) ==
    IF StoredDates(data) = {} THEN <<>>
    ELSE LET last == SetMax(StoredDates(data))
         IN  Append(DemandHistory([d \in StoredDates(data) \ {last} |-> data[d]]),
                    data[last].demand)

RECURSIVE SumSeq(_, _, _)
SumSeq(s, from, to) == IF from > to THEN 0 ELSE s[from] + SumSeq(s, from + 1, to)

\* round(n / d, 2) in hundredths, d > 0 (floor of the value plus a half: the
\* divisors in use leave no tie)
RoundHundredths(n, d) == (200 * n + d) \div (2 * d)

\* a cast that rounds to the nearest integer
IntOf_Rounded(h) == (h + 50) \div 100

\* a cast that takes the floor
IntOf_Floor(h) == h \div 100

\* int(x) of a value in hundredths: truncation toward zero
IntOf(h) == IF h >= 0 THEN h \div 100 ELSE -((-h) \div 100)

Forecast(values) == [raised |-> FALSE, values |-> values]
Raised == [raised |-> TRUE, values |-> <<>>]

\* a mean taken over the first values of the history
MovingAverageOf_Leading(history, window, periods) ==
    LET n == Len(history)
        w == IF n < window THEN n ELSE window
        first_ma == RoundHundredths(SumSeq(history, 1, w), w)
    IN  Forecast([i \in 1..periods |-> first_ma])

\* series.rolling(window).mean().iloc[-1], repeated periods times
MovingAverageOf(history, window, periods) ==
    LET n == Len(history)
        w == IF n < window THEN n ELSE window
        last_ma == RoundHundredths(SumSeq(history, n - w + 1, n), w)
    IN  Forecast([i \in 1..periods |-> last_ma])

RECURSIVE Pow2(_)
Pow2(k) == IF k = 0 THEN 1 ELSE 2 * Pow2(k - 1)

RECURSIVE WeightedSum(_, _)
WeightedSum(history, k) ==
    IF k = 0 THEN 0
    ELSE WeightedSum(history, k - 1) + history[k] * Pow2(k - 1)

RECURSIVE InterceptSum(_, _)
InterceptSum(history, k) ==
    IF k = 0 THEN 0
    ELSE InterceptSum(history, k - 1) + history[k] * (7 - k)

\* SimpleExpSmoothing(series, initialization_method="heuristic")
\*     .fit(smoothing_level=0.5, optimized=False).forecast(periods):
\* the heuristic start needs MinHeuristicObs observations (ValueError below
\* that); the start level is the intercept of the line fitted to the first
\* ten, sum(y[k] * (7 - k)) / 15, each level is (y + level) / 2 and the
\* forecast is flat at the last level
ExpSmoothingOf(history, periods) ==
    LET n == Len(history)
        level == RoundHundredths(
                     InterceptSum(history, MinHeuristicObs) + 15 * WeightedSum(history, n),
                     15 * Pow2(n))
    IN  IF n < MinHeuristicObs THEN Raised
        ELSE Forecast([i \in 1..periods |-> level])

\* forecast_utils.moving_average_forecast
moving_average_forecast(data, window, periods) ==
    IF StoredDates(data) = {} THEN Forecast(<<>>)
    ELSE MovingAverageOf(DemandHistory(data), window, periods)

\* a smoothing that fits the model without looking for an empty series
exponential_smoothing_forecast_Unchecked(data, periods) ==
    ExpSmoothingOf(DemandHistory(data), periods)

\* forecast_utils.exponential_smoothing_forecast
exponential_smoothing_forecast(data, periods) ==
    IF StoredDates(data) = {} THEN Forecast(<<>>)
    ELSE ExpSmoothingOf(DemandHistory(data), periods)

\* a history that leaves out the row of the anchor date
forecast_from_date_BeforeAnchor(data, start_date, periods, method, window) ==
    IF StoredDates(data) = {} THEN Forecast(<<>>)
    ELSE LET earliest_date == SetMin(StoredDates(data))
             history == IF start_date < earliest_date
                        THEN DemandHistory(data)
                        ELSE DemandHistory(
                                 [d \in {e \in StoredDates(data) : e < start_date}
                                     |-> data[d]])
         IN  IF history = <<>> THEN Forecast(<<>>)
             ELSE IF method = "moving_average"
                  THEN MovingAverageOf(history, window, periods)
                  ELSE ExpSmoothingOf(history, periods)

\* forecast_utils.forecast_from_date
forecast_from_date(data, start_date, periods, method, window) ==
    IF StoredDates(data) = {} THEN Forecast(<<>>)
    ELSE LET earliest_date == SetMin(StoredDates(data))
             history == IF start_date < earliest_date
                        THEN DemandHistory(data)
                        ELSE DemandHistory(
                                 [d \in {e \in StoredDates(data) : e <= start_date}
                                     |-> data[d]])
         IN  IF history = <<>> THEN Forecast(<<>>)
             ELSE IF method = "moving_average"
                  THEN MovingAverageOf(history, window, periods)
                  ELSE ExpSmoothingOf(history, periods)

\* the forecast calculate_demand_forecast computes
ComputedForecast(data, method, periods, start_date) ==
    IF start_date # NoDate
    THEN forecast_from_date(data, start_date, periods, method, DefaultWindow)
    ELSE IF method = "moving_average"
         THEN moving_average_forecast(data, DefaultWindow, periods)
         ELSE exponential_smoothing_forecast(data, periods)

\* persistence that starts the day after the anchor
FirstForecastDate_AfterAnchor(data, start_date) ==
    IF start_date # NoDate THEN start_date + 1
    ELSE SetMax(StoredDates(data)) + 1

\* persistence that starts on the latest date itself
FirstForecastDate_OnLatest(data, start_date) ==
    IF start_date # NoDate THEN start_date
    ELSE SetMax(StoredDates(data))

\* the date the first forecast value is written to
FirstForecastDate(data, start_date) ==
    IF start_date # NoDate THEN start_date
    ELSE SetMax(StoredDates(data)) + 1

\* for value in forecast: update_forecast(next_date, int(value)); next_date += 1
RECURSIVE PersistForecast(_, _, _, _)
PersistForecast(t, next_date, forecast, i) ==
    IF i > Len(forecast) THEN t
    ELSE PersistForecast(UpdateForecastResult(t, next_date, IntOf(forecast[i])),
                         next_date + 1, forecast, i + 1)

\* agentsscm.calculate_demand_forecast
CalculateDemandForecastResult(t, method, periods, start_date, limit) ==
    LET data == GetDailyData(t, limit)
        forecast == ComputedForecast(data, method, periods, start_date)
    IN  IF forecast.raised \/ forecast.values = <<>> \/ StoredDates(data) = {} THEN t
        ELSE PersistForecast(t, FirstForecastDate(data, start_date), forecast.values, 1)

calculate_demand_forecast ==
    \E method \in Methods, periods \in 1..MaxPeriods,
       start_date \in {NoDate} \cup Dates, limit \in Limits :
        LET forecast == ComputedForecast(GetDailyData(daily_data, limit),
                                         method, periods, start_date)
        IN  Done(CalculateDemandForecastResult(daily_data, method, periods,
                                               start_date, limit),
                 Call("calculate_demand_forecast", start_date, 0, periods,
                      IF forecast.raised THEN "raised"
                      ELSE IF forecast.values = <<>> THEN "no_data"
                      ELSE "forecast",
                      forecast.values, method, limit))

\* db_utils.clear_all_forecast: UPDATE daily_data SET forecast = NULL
ClearAllForecastResult(t) ==
    [d \in StoredDates(t) |-> [t[d] EXCEPT !.forecast = NULL]]

clear_all_forecast ==
    Done(ClearAllForecastResult(daily_data),
         Call("clear_all_forecast", NoDate, 0, 0, "cleared", <<>>, "", NoDate))

\* a range whose end date is excluded
ClearForecastRangeResult_EndExcluded(t, start_date, end_date) ==
    [d \in StoredDates(t) |->
        IF d >= start_date /\ (end_date = NoDate \/ d < end_date)
        THEN [t[d] EXCEPT !.forecast = NULL]
        ELSE t[d]]

\* db_utils.clear_forecast_range: ... WHERE date >= ? [AND date <= ?]
ClearForecastRangeResult(t, start_date, end_date) ==
    [d \in StoredDates(t) |->
        IF d >= start_date /\ (end_date = NoDate \/ d <= end_date)
        THEN [t[d] EXCEPT !.forecast = NULL]
        ELSE t[d]]

\* the rows the UPDATE of clear_forecast_range matches (cursor.rowcount)
ClearForecastRangeMatched(t, start_date, end_date) ==
    {d \in StoredDates(t) : d >= start_date /\ (end_date = NoDate \/ d <= end_date)}

clear_forecast_range ==
    \E start_date \in Dates, end_date \in {NoDate} \cup Dates :
        Done(ClearForecastRangeResult(daily_data, start_date, end_date),
             [Call("clear_forecast_range", start_date, 0, 0,
                   IF ClearForecastRangeMatched(daily_data, start_date, end_date) = {}
                   THEN "no_rows" ELSE "cleared",
                   <<>>, "", NoDate) EXCEPT !.end = end_date])

\* the rows of the dates S in ascending date order, as get_stockouts returns
\* them: date, demand, production_plan, inventory
RECURSIVE RowsInDateOrder(_, _)
RowsInDateOrder(t, S) ==
    IF S = {} THEN <<>>
    ELSE LET last == SetMax(S)
         IN  Append(RowsInDateOrder(t, S \ {last}),
                    [date |-> last, demand |-> t[last].demand,
                     production_plan |-> t[last].production_plan,
                     inventory |-> t[last].inventory])

\* a stockout query that leaves out the rows of inventory 0
GetStockouts_Negative(t) ==
    RowsInDateOrder(t, {d \in StoredDates(t) : t[d].inventory < 0})

\* db_utils.get_stockouts: ... WHERE inventory <= 0 ORDER BY date
GetStockouts(t) ==
    RowsInDateOrder(t, {d \in StoredDates(t) : t[d].inventory <= 0})

get_stockouts ==
    Done(daily_data,
         [Call("get_stockouts", NoDate, 0, 0, "rows", <<>>, "", NoDate)
            EXCEPT !.result = GetStockouts(daily_data)])

\* a proposal that keeps the current plan
Proposal_CurrentPlan(row) ==
    [date |-> row.date, demand |-> row.demand,
     current_production_plan |-> row.production_plan,
     proposed_production_plan |-> row.production_plan,
     resulting_inventory |-> row.production_plan - row.demand]

\* the proposal propose_production_plan_for_stockouts appends for one row
Proposal(row) ==
    LET proposed_plan == row.demand
    IN  [date |-> row.date, demand |-> row.demand,
         current_production_plan |-> row.production_plan,
         proposed_production_plan |-> proposed_plan,
         resulting_inventory |-> proposed_plan - row.demand]

\* db_utils.propose_production_plan_for_stockouts
ProposeProductionPlanForStockouts(t) ==
    LET stockouts == GetStockouts(t)
    IN  [i \in 1..Len(stockouts) |-> Proposal(stockouts[i])]

propose_production_plan_for_stockouts ==
    Done(daily_data,
         [Call("propose_production_plan_for_stockouts", NoDate, 0, 0, "proposals",
               <<>>, "", NoDate)
            EXCEPT !.result = ProposeProductionPlanForStockouts(daily_data)])

\* the windows a caller passes to moving_average_forecast
Windows == 1..DefaultWindow

ForecastRet(forecast) ==
    IF forecast.raised THEN "raised"
    ELSE IF forecast.values = <<>> THEN "empty" ELSE "forecast"

\* forecast_utils.moving_average_forecast, called on its own
call_moving_average_forecast ==
    \E window \in Windows, periods \in 1..MaxPeriods :
        LET forecast == moving_average_forecast(GetDailyData(daily_data, NoLimit),
                                                window, periods)
        IN  Done(daily_data,
                 [Call("moving_average_forecast", NoDate, 0, periods,
                       ForecastRet(forecast), forecast.values, "moving_average", NoLimit)
                    EXCEPT !.window = window])

\* forecast_utils.exponential_smoothing_forecast, called on its own
call_exponential_smoothing_forecast ==
    \E periods \in 1..MaxPeriods :
        LET forecast == exponential_smoothing_forecast(
                            GetDailyData(daily_data, NoLimit), periods)
        IN  Done(daily_data,
                 Call("exponential_smoothing_forecast", NoDate, 0, periods,
                      ForecastRet(forecast), forecast.values,
                      "exponential_smoothing", NoLimit))

\* forecast_utils.forecast_from_date, called on its own
call_forecast_from_date ==
    \E start_date \in Dates, periods \in 1..MaxPeriods, method \in Methods,
       window \in Windows :
        LET forecast == forecast_from_date(GetDailyData(daily_data, NoLimit),
                                           start_date, periods, method, window)
        IN  Done(daily_data,
                 [Call("forecast_from_date", start_date, 0, periods,
                       ForecastRet(forecast), forecast.values, method, NoLimit)
                    EXCEPT !.window = window])

Next ==
    \/ update_demand
    \/ update_production_plan
    \/ update_forecast
    \/ tool_update_demand
    \/ tool_update_production_plan
    \/ recalculate_inventory_from
    \/ increase_all_demand
    \/ generate_future_data
    \/ delete_all_data
    \/ calculate_demand_forecast
    \/ clear_all_forecast
    \/ clear_forecast_range
    \/ get_stockouts
    \/ propose_production_plan_for_stockouts
    \/ call_moving_average_forecast
    \/ call_exponential_smoothing_forecast
    \/ call_forecast_from_date

Spec == Init /\ [][Next]_vars

\* ---- dates as the callers write them ----
\* A date string is the word it starts with (a tuple of letters, empty when
\* there is none) and the numbers that follow in the order written:
\* "18-04-2025" is <<18, 4, 2025>>, "2025-04-18" <<2025, 4, 18>> and
\* "July 2024" the letters J, u, l, y with <<2024>>.  The day numbers of the
\* table are the days of BaseMonth of BaseYear.
BaseYear == 2025
BaseMonth == 4
\* the year of the day the call is made on
CurrentYear == 2025
SomeYears == {BaseYear - 1, BaseYear}

DateString(word, fields) == [word |-> word, fields |-> fields]

\* strftime("%Y-%m-%d") of a day of the table
IsoString(d) == DateString(<<>>, <<BaseYear, BaseMonth, d>>)

\* the DD-MM-YYYY form of a day of the table
LegacyString(d) == DateString(<<>>, <<d, BaseMonth, BaseYear>>)

\* datetime.strptime(iso, "%Y-%m-%d") as a day number: ISO strings order as
\* the calendar does
DayOf(iso) == (iso[1] - BaseYear) * 372 + (iso[2] - BaseMonth) * 31 + iso[3]

MonthWords ==
    {<<"J", "u", "l", "y">>, <<"j", "u", "l", "y">>, <<"J", "U", "L", "Y">>,
     <<"M", "a", "r", "c", "h">>, <<"m", "a", "r", "c", "h">>}

DateStrings ==
    {IsoString(d) : d \in Dates} \cup {LegacyString(d) : d \in Dates}

MonthStrings ==
    {DateString(w, f) : w \in MonthWords, f \in {<<>>} \cup {<<y>> : y \in SomeYears}}

LowerOf(c) ==
    CASE c = "J" -> "j" [] c = "U" -> "u" [] c = "L" -> "l" [] c = "Y" -> "y"
      [] c = "M" -> "m" [] c = "A" -> "a" [] c = "R" -> "r" [] c = "C" -> "c"
      [] c = "H" -> "h" [] OTHER -> c

Lower(word) == [i \in 1..Len(word) |-> LowerOf(word[i])]

\* a month table that knows the names in lower case only
MonthOf_CaseSensitive(word) ==
    IF word = <<"m", "a", "r", "c", "h">> THEN 3
    ELSE IF word = <<"j", "u", "l", "y">> THEN 7
    ELSE 0

\* the month a word names to dateparser, whatever its case; 0 when none
MonthOf(word) ==
    IF Lower(word) = <<"m", "a", "r", "c", "h">> THEN 3
    ELSE IF Lower(word) = <<"j", "u", "l", "y">> THEN 7
    ELSE 0

Parsed(iso) == [ok |-> TRUE, iso |-> iso]
NotParsed == [ok |-> FALSE, iso |-> <<>>]

IsYear(n) == n >= 1000 /\ n <= 9999

\* a parser that reads the numbers as month, day, year
parse_date_MonthFirst(date_str) ==
    LET f == date_str.fields
    IN  IF date_str.word # <<>>
        THEN IF MonthOf(date_str.word) = 0 THEN NotParsed
             ELSE Parsed(<<IF f = <<>> THEN CurrentYear ELSE f[1],
                           MonthOf(date_str.word), 1>>)
        ELSE IF Len(f) # 3 THEN NotParsed
        ELSE IF f[1] \in 1..12 /\ f[2] \in 1..31 /\ IsYear(f[3])
             THEN Parsed(<<f[3], f[1], f[2]>>)
        ELSE IF IsYear(f[1]) /\ f[2] \in 1..12 /\ f[3] \in 1..31
             THEN Parsed(<<f[1], f[2], f[3]>>)
        ELSE NotParsed

\* db_utils.parse_date: a word with an optional four-digit year goes to
\* dateparser with PREFER_DAY_OF_MONTH = first; anything else is tried
\* against %d-%m-%Y first and left to dateparser, which reads a leading
\* four-digit number as the year; the result is formatted %Y-%m-%d
parse_date(date_str) ==
    LET f == date_str.fields
        month_only == /\ date_str.word # <<>>
                      /\ f = <<>> \/ (Len(f) = 1 /\ IsYear(f[1]))
    IN  IF month_only
        THEN IF MonthOf(date_str.word) = 0 THEN NotParsed
             ELSE Parsed(<<IF f = <<>> THEN CurrentYear ELSE f[1],
                           MonthOf(date_str.word), 1>>)
        ELSE IF date_str.word # <<>> \/ Len(f) # 3 THEN NotParsed
        ELSE IF f[1] \in 1..31 /\ f[2] \in 1..12 /\ IsYear(f[3])
             THEN Parsed(<<f[3], f[2], f[1]>>)
        ELSE IF IsYear(f[1]) /\ f[2] \in 1..12 /\ f[3] \in 1..31
             THEN Parsed(<<f[1], f[2], f[3]>>)
        ELSE NotParsed

\* the string a tool hands to db_utils: parse_date of the caller's string
FormattedDate(date_str) ==
    LET parsed == parse_date(date_str)
    IN  IF parsed.ok THEN DateString(<<>>, parsed.iso) ELSE date_str

\* db_utils.parse_date, called on its own
call_parse_date ==
    \E date_str \in DateStrings \cup MonthStrings :
        LET parsed == parse_date(date_str)
        IN  Done(daily_data,
                 [Call("parse_date", NoDate, 0, 0,
                       IF parsed.ok THEN "parsed" ELSE "raised", <<>>, "", NoDate)
                    EXCEPT !.input = date_str, !.key = parsed.iso])

\* agentsscm.get_daily_data(date): parse_date in the tool, then
\* db_utils.get_daily_data(formatted_date), which parses its argument again
agent_get_daily_data ==
    \E date_str \in DateStrings :
        LET key == parse_date(FormattedDate(date_str)).iso
            found == GetDailyDataOf(daily_data, DayOf(key))
        IN  Done(daily_data,
                 [Call("agent_get_daily_data", DayOf(key), 0, 0,
                       IF found = {} THEN "error" ELSE "rows", <<>>, "", NoDate)
                    EXCEPT !.input = date_str, !.key = key,
                           !.result = RowsInDateOrder(daily_data, found)])

\* agentsscm.update_demand(date, demand): the date is parsed, looked for
\* with get_daily_data and handed to db_utils.update_demand as formatted
agent_update_demand ==
    \E date_str \in DateStrings, v \in UpdateValues :
        LET key == FormattedDate(date_str).fields
            d == DayOf(parse_date(FormattedDate(date_str)).iso)
            found == GetDailyDataOf(daily_data, d)
        IN  Done(IF found = {} THEN daily_data
                 ELSE UpdateDemandResult(daily_data, DayOf(key), v),
                 [Call("agent_update_demand", DayOf(key), v, 0,
                       IF found = {} THEN "error" ELSE "updated", <<>>, "", NoDate)
                    EXCEPT !.input = date_str, !.key = key])

\* agentsscm.update_production_plan(date, production_plan)
agent_update_production_plan ==
    \E date_str \in DateStrings, v \in UpdateValues :
        LET key == FormattedDate(date_str).fields
            d == DayOf(parse_date(FormattedDate(date_str)).iso)
            found == GetDailyDataOf(daily_data, d)
        IN  Done(IF found = {} THEN daily_data
                 ELSE UpdateProductionPlanResult(daily_data, DayOf(key), v),
                 [Call("agent_update_production_plan", DayOf(key), v, 0,
                       IF found = {} THEN "error" ELSE "updated", <<>>, "", NoDate)
                    EXCEPT !.input = date_str, !.key = key])

\* agentsscm.generate_future_data(start_date, days): the date is parsed in
\* the tool and again in db_utils.generate_future_data, and the keys
\* written are strftime("%Y-%m-%d") of the parsed date and of the days
\* after it
agent_generate_future_data ==
    \E date_str \in DateStrings, days \in 1..MaxDays :
        LET key == parse_date(FormattedDate(date_str)).iso
            start == DayOf(key)
        IN  /\ start + days - 1 <= NumDates
            /\ \E demand \in [1..days -> GenValues],
                  production_plan \in [1..days -> GenValues],
                  forecast \in [1..days -> GenForecastValues] :
                    Done(GenerateFutureDataResult(daily_data, start, days, demand,
                                                  production_plan, forecast),
                         [Call("agent_generate_future_data", start,
                               Cardinality(GenerateInserted(daily_data, start, days)),
                               days, "generated", <<>>, "", NoDate)
                            EXCEPT !.input = date_str, !.key = key])

NextDates ==
    \/ call_parse_date
    \/ agent_get_daily_data
    \/ agent_update_demand
    \/ agent_update_production_plan
    \/ agent_generate_future_data

\* the agent tools called with dates in the forms callers write
SpecDates == Init /\ [][NextDates]_vars

\* ---- two point updates at the same time ----
\* the tables generate_future_data leaves when it fills every date of an
\* empty table in one call
GeneratedTables ==
    {GenerateFutureDataResult(<<>>, 1, NumDates, demand, production_plan, forecast) :
        demand \in [1..NumDates -> GenValues],
        production_plan \in [1..NumDates -> GenValues],
        forecast \in [1..NumDates -> GenForecastValues]}

InitConcurrent ==
    /\ daily_data \in GeneratedTables
    /\ pre = daily_data
    /\ lastOp = Call("init", NoDate, 0, 0, "", <<>>, "", NoDate)
    /\ steps = 0
    /\ callers = [c \in Callers |-> Idle]

\* update_demand(date, value) or update_production_plan(date, value) is
\* called: the two callers work on different dates
call_update(c) ==
    \E column \in {"demand", "production_plan"}, d \in Dates, v \in UpdateValues :
        /\ callers[c].pc = "idle"
        /\ \A o \in Callers \ {c} : callers[o].date # d
        /\ callers' = [callers EXCEPT ![c] =
                          [Idle EXCEPT !.pc = "update", !.column = column,
                                       !.date = d, !.value = v]]
        /\ UNCHANGED <<daily_data, pre, lastOp, steps>>

\* UPDATE daily_data SET <column> = ? WHERE date = ?; conn.commit()
commit_value(c) ==
    /\ callers[c].pc = "update"
    /\ daily_data' = IF callers[c].column = "demand"
                     THEN SetDemand(daily_data, callers[c].date, callers[c].value)
                     ELSE SetProductionPlan(daily_data, callers[c].date,
                                            callers[c].value)
    /\ callers' = [callers EXCEPT ![c].pc =
                      IF callers[c].date \in StoredDates(daily_data)
                      THEN "select_carry" ELSE "returned"]
    /\ UNCHANGED <<pre, lastOp, steps>>

\* recalculate_inventory_from: SELECT inventory ... WHERE date < ? ... LIMIT 1
select_carry(c) ==
    /\ callers[c].pc = "select_carry"
    /\ callers' = [callers EXCEPT
                      ![c].pc = "select_rows",
                      ![c].carry = RecalculateCarryIn(daily_data, callers[c].date)]
    /\ UNCHANGED <<daily_data, pre, lastOp, steps>>

\* recalculate_inventory_from: SELECT date, production_plan, demand ...
\* WHERE date >= ? ORDER BY date
select_rows(c) ==
    /\ callers[c].pc = "select_rows"
    /\ callers' = [callers EXCEPT
                      ![c].pc = "update_inventory",
                      ![c].rows = [d \in {e \in StoredDates(daily_data) :
                                            e >= callers[c].date} |->
                                     [production_plan |-> daily_data[d].production_plan,
                                      demand |-> daily_data[d].demand]]]
    /\ UNCHANGED <<daily_data, pre, lastOp, steps>>

\* the running inventory of the loop over the rows read, after the row of d
RECURSIVE RunningOver(_, _, _)
RunningOver(carry, rows, d) ==
    LET before == {e \in DOMAIN rows : e < d}
        running == IF before = {} THEN carry
                   ELSE RunningOver(carry, rows, SetMax(before))
    IN  running + rows[d].production_plan - rows[d].demand

\* recalculate_inventory_from: UPDATE daily_data SET inventory = ? WHERE
\* date = ? for each row read; conn.commit()
commit_inventory(c) ==
    /\ callers[c].pc = "update_inventory"
    /\ daily_data' =
          [d \in StoredDates(daily_data) |->
              IF d \in DOMAIN callers[c].rows
              THEN [daily_data[d] EXCEPT
                       !.inventory = RunningOver(callers[c].carry, callers[c].rows, d)]
              ELSE daily_data[d]]
    /\ callers' = [callers EXCEPT ![c].pc = "returned"]
    /\ UNCHANGED <<pre, lastOp, steps>>

NextConcurrent ==
    \E c \in Callers :
        \/ call_update(c)
        \/ commit_value(c)
        \/ select_carry(c)
        \/ select_rows(c)
        \/ commit_inventory(c)

\* two callers whose point updates interleave statement by statement
SpecConcurrent == InitConcurrent /\ [][NextConcurrent]_vars

\* ---- storage failures ----
\* the statement at which the storage fails during a call
RecalculateStatements ==
    {"recalculate.select", "recalculate.update", "recalculate.commit"}
WriteStatements == {"update", "commit"}

\* recalculate_inventory_from when one of its statements raises: the finally
\* clause closes the connection before conn.commit(), so the inventory
\* UPDATEs it ran are discarded
RecalculateInventoryFailing(t, start, point) == t

recalculate_inventory_from_failing ==
    \E d \in Dates, point \in RecalculateStatements :
        /\ \E e \in StoredDates(daily_data) : e >= d
        /\ Done(RecalculateInventoryFailing(daily_data, d, point),
                [Call("recalculate_inventory_from", d, 0, 0, "raised", <<>>, "", NoDate)
                   EXCEPT !.failed = point,
                          !.result = RecalculatedFrom(daily_data, d)])

\* update_demand when a statement raises: the UPDATE is committed on its own
\* connection before recalculate_inventory_from runs on another one
UpdateDemandFailing(t, d, v, point) ==
    IF point \in WriteStatements THEN t
    ELSE RecalculateInventoryFailing(SetDemand(t, d, v), d, point)

update_demand_failing ==
    \E d \in Dates, v \in UpdateValues,
       point \in WriteStatements \cup RecalculateStatements :
        /\ point \in RecalculateStatements => d \in StoredDates(daily_data)
        /\ Done(UpdateDemandFailing(daily_data, d, v, point),
                [Call("update_demand", d, v, 0, "error", <<>>, "", NoDate)
                   EXCEPT !.failed = point,
                          !.result = UpdateDemandResult(daily_data, d, v)])

\* update_production_plan when a statement raises
UpdateProductionPlanFailing(t, d, v, point) ==
    IF point \in WriteStatements THEN t
    ELSE RecalculateInventoryFailing(SetProductionPlan(t, d, v), d, point)

update_production_plan_failing ==
    \E d \in Dates, v \in UpdateValues,
       point \in WriteStatements \cup RecalculateStatements :
        /\ point \in RecalculateStatements => d \in StoredDates(daily_data)
        /\ Done(UpdateProductionPlanFailing(daily_data, d, v, point),
                [Call("update_production_plan", d, v, 0, "error", <<>>, "", NoDate)
                   EXCEPT !.failed = point,
                          !.result = UpdateProductionPlanResult(daily_data, d, v)])

\* increase_all_demand when a statement raises: conn.rollback() undoes the
\* demand UPDATEs only while they are not committed yet
IncreaseAllDemandFailing(t, offset, point) ==
    IF point \in WriteStatements \cup {"select"} THEN t
    ELSE RecalculateInventoryFailing(
             [d \in StoredDates(t) |-> [t[d] EXCEPT !.demand = t[d].demand + offset]],
             SetMin(StoredDates(t)), point)

increase_all_demand_failing ==
    \E offset \in Offsets \ {0},
       point \in {"select"} \cup WriteStatements \cup RecalculateStatements :
        /\ point # "select" => StoredDates(daily_data) # {}
        /\ Done(IncreaseAllDemandFailing(daily_data, offset, point),
                [Call("increase_all_demand", NoDate, offset,
                      Cardinality(StoredDates(daily_data)), "error", <<>>, "", NoDate)
                   EXCEPT !.failed = point,
                          !.result = IncreaseAllDemandResult(daily_data, offset)])

\* a generation that skips the row whose write fails and commits the others
GenerateFutureDataFailing_SkipsRow(t, start, days, demand, production_plan, forecast, failing) ==
    LET full == GenerateFutureDataResult(t, start, days, demand, production_plan,
                                         forecast)
    IN  [d \in StoredDates(full) \ ({failing} \ StoredDates(t)) |->
            IF d = failing THEN t[d] ELSE full[d]]

\* generate_future_data when the write of the row of date `failing` raises:
\* the loop has no handler of its own, the outer except returns the error
\* message and conn.commit() is never reached
GenerateFutureDataFailing(t, start, days, demand, production_plan, forecast, failing) ==
    t

generate_future_data_failing ==
    \E start \in Dates, days \in 1..MaxDays :
        /\ start + days - 1 <= NumDates
        /\ \E demand \in [1..days -> GenValues],
              production_plan \in [1..days -> GenValues],
              forecast \in [1..days -> GenForecastValues],
              failing \in start..(start + days - 1) :
                Done(GenerateFutureDataFailing(daily_data, start, days, demand,
                                               production_plan, forecast, failing),
                     [Call("generate_future_data", start, failing, days, "error",
                           <<>>, "", NoDate)
                        EXCEPT !.failed = "write",
                               !.result = GenerateFutureDataResult(
                                              daily_data, start, days, demand,
                                              production_plan, forecast)])

NextFail ==
    \/ generate_future_data
    \/ generate_future_data_failing
    \/ recalculate_inventory_from_failing
    \/ update_demand_failing
    \/ update_production_plan_failing
    \/ increase_all_demand_failing

\* the store under calls during which the storage may fail
SpecFail == Init /\ [][NextFail]_vars

\* ---- properties ----

\* the cumulative inventory equation at the stored date d of table t: the
\* carry-in is the inventory of the preceding stored date, 0 without one
InventoryHolds(t, d) ==
    LET preceding == {p \in StoredDates(t) :
                        p < d /\ \A e \in StoredDates(t) : e < d => e <= p}
    IN  /\ preceding = {} =>
            t[d].inventory = t[d].production_plan - t[d].demand
        /\ \A p \in preceding :
            t[d].inventory = t[p].inventory + t[d].production_plan - t[d].demand

DemandUpdates == {"update_demand", "tool_update_demand"}
PlanUpdates == {"update_production_plan", "tool_update_production_plan"}
PointUpdates == DemandUpdates \cup PlanUpdates

\* C1: after update_demand(d, v) or update_production_plan(d, v) succeeds on
\* an existing date d, every stored date d' >= d satisfies the cumulative
\* inventory equation against its preceding stored date (carry-in 0 when it
\* has none).
C1_UpdateRestoresInventoryFromDate ==
    (lastOp.op \in PointUpdates /\ lastOp.ret = "updated") =>
        \A d \in StoredDates(daily_data) :
            d >= lastOp.date => InventoryHolds(daily_data, d)

\* a demand update on a date that has a stored predecessor and a stored
\* successor, whose recalculation changed the successor's inventory
C1_Witness ==
    /\ lastOp.op = "update_demand"
    /\ lastOp.ret = "updated"
    /\ \E p, n \in StoredDates(daily_data) :
            /\ p < lastOp.date
            /\ lastOp.date < n
            /\ daily_data[n].inventory # pre[n].inventory

\* C2: in every state reached from the empty table every stored date
\* satisfies the cumulative inventory equation (the store always holds a
\* consistent series table-wide).
C2_StoreAlwaysConsistent ==
    \A d \in StoredDates(daily_data) : InventoryHolds(daily_data, d)

\* C3: after generate_future_data(start, n) every stored date d' >= start
\* satisfies the cumulative inventory equation, the rows later than the
\* generated range included.
C3_GenerateRestoresInventoryFromStart ==
    lastOp.op = "generate_future_data" =>
        \A d \in StoredDates(daily_data) :
            d >= lastOp.date => InventoryHolds(daily_data, d)

\* C4: after increase_all_demand(k) every stored row's demand is its
\* pre-call demand plus k, production_plan and forecast are unchanged, and
\* the cumulative inventory equation holds for every stored date.
C4_IncreaseAllDemandOffsetsAndRestores ==
    lastOp.op = "increase_all_demand" =>
        /\ StoredDates(daily_data) = StoredDates(pre)
        /\ \A d \in StoredDates(daily_data) :
            /\ daily_data[d].demand = pre[d].demand + lastOp.value
            /\ daily_data[d].production_plan = pre[d].production_plan
            /\ daily_data[d].forecast = pre[d].forecast
            /\ InventoryHolds(daily_data, d)

\* the offset law of C4 for the calls that apply an offset (a non-zero k on a
\* table that holds rows): increase_all_demand recalculates from the first
\* stored date, so the equation then holds table-wide
IncreaseAllDemandApplied ==
    (lastOp.op = "increase_all_demand" /\ lastOp.ret = "increased") =>
        /\ StoredDates(daily_data) = StoredDates(pre)
        /\ \A d \in StoredDates(daily_data) :
            /\ daily_data[d].demand = pre[d].demand + lastOp.value
            /\ daily_data[d].production_plan = pre[d].production_plan
            /\ daily_data[d].forecast = pre[d].forecast
            /\ InventoryHolds(daily_data, d)

\* C5: a successful update_demand(d, v) (resp. update_production_plan)
\* changes only demand[d] (resp. production_plan[d]) and the inventory of
\* stored dates >= d: the inventory of earlier dates, the demand and
\* production_plan of every other date, every forecast and the set of stored
\* dates stay as they were.
C5_UpdateFrame ==
    (lastOp.op \in PointUpdates /\ lastOp.ret = "updated") =>
        /\ StoredDates(daily_data) = StoredDates(pre)
        /\ \A e \in StoredDates(daily_data) :
            /\ daily_data[e].forecast = pre[e].forecast
            /\ e < lastOp.date => daily_data[e].inventory = pre[e].inventory
            /\ e # lastOp.date =>
                /\ daily_data[e].demand = pre[e].demand
                /\ daily_data[e].production_plan = pre[e].production_plan
        /\ lastOp.op \in DemandUpdates =>
            /\ daily_data[lastOp.date].demand = lastOp.value
            /\ daily_data[lastOp.date].production_plan = pre[lastOp.date].production_plan
        /\ lastOp.op \in PlanUpdates =>
            /\ daily_data[lastOp.date].production_plan = lastOp.value
            /\ daily_data[lastOp.date].demand = pre[lastOp.date].demand

\* a production plan update on the last of three stored dates, made while an
\* earlier row does not satisfy the inventory equation
C5_Witness ==
    /\ lastOp.op = "update_production_plan"
    /\ lastOp.ret = "updated"
    /\ daily_data[lastOp.date].production_plan # pre[lastOp.date].production_plan
    /\ \E e \in StoredDates(daily_data) :
            e < lastOp.date /\ ~InventoryHolds(daily_data, e)

\* C6: recalculate_inventory_from(d) is idempotent: on any table and for any
\* d, a second call right after the first leaves every row as the first call
\* left it.
C6_RecalculateIdempotent ==
    \A d \in Dates :
        LET once == RecalculatedFrom(daily_data, d)
        IN  RecalculatedFrom(once, d) = once

\* a recalculation that changed the inventory of a stored row
C6_Witness ==
    /\ lastOp.op = "recalculate_inventory_from"
    /\ \E d \in StoredDates(daily_data) :
            daily_data[d].inventory # pre[d].inventory

\* C7: update_demand, update_production_plan and update_forecast called with
\* a date that has no stored record return a not-found message and leave the
\* store unchanged: no row created, no value changed, no recalculation.
C7_MissingDateLeavesStore ==
    (/\ lastOp.op \in PointUpdates \cup {"update_forecast"}
     /\ lastOp.date \notin StoredDates(pre)) =>
        /\ lastOp.ret \in {"not_found", "error"}
        /\ daily_data = pre

\* a forecast update on a missing date of a table that holds other rows, one
\* of them not satisfying the inventory equation
C7_Witness ==
    /\ lastOp.op = "update_forecast"
    /\ lastOp.ret = "not_found"
    /\ lastOp.date \notin StoredDates(daily_data)
    /\ \E e \in StoredDates(daily_data) : ~InventoryHolds(daily_data, e)

\* v is the integer cast of the value h hundredths: its fraction dropped
IsIntegerCast(h, v) ==
    IF h >= 0 THEN 100 * v <= h /\ h < 100 * v + 100
    ELSE h <= 100 * v /\ 100 * v - 100 < h

\* the forecast column of the row holds the integer cast of h hundredths
ForecastIs(row, h) == \E v \in row.forecast : row.forecast = {v} /\ IsIntegerCast(h, v)

AnchoredForecast ==
    /\ lastOp.op = "calculate_demand_forecast"
    /\ lastOp.date # NoDate
    /\ lastOp.ret = "forecast"

\* C8 as stated: with an anchor date a, the k-th forecast value (k =
\* 1..periods) is persisted to the row dated a + k days: persistence starts
\* the day after the anchor and the row at a is not written.
C8_PersistsFromDayAfterAnchor ==
    AnchoredForecast =>
        /\ \A k \in 1..Len(lastOp.forecast) :
            (lastOp.date + k) \in StoredDates(daily_data) =>
                ForecastIs(daily_data[lastOp.date + k], lastOp.forecast[k])
        /\ lastOp.date \in StoredDates(daily_data) =>
            daily_data[lastOp.date].forecast = pre[lastOp.date].forecast

\* C8 amended: with an anchor date a, the k-th forecast value (k =
\* 1..periods) is persisted to the row dated a + (k - 1) days when that row
\* exists: persistence starts at the anchor date itself, the row at a is
\* written, and no forecast of a row outside a..a+periods-1 changes.
C8_PersistsFromAnchor ==
    AnchoredForecast =>
        /\ StoredDates(daily_data) = StoredDates(pre)
        /\ \A d \in StoredDates(daily_data) :
            IF lastOp.date <= d /\ d < lastOp.date + lastOp.days
            THEN ForecastIs(daily_data[d], lastOp.forecast[d - lastOp.date + 1])
            ELSE daily_data[d].forecast = pre[d].forecast

\* an anchored forecast that rewrote the forecast of the anchor's own row and
\* left a stored row right after its last target date
C8_Witness ==
    /\ AnchoredForecast
    /\ lastOp.date \in StoredDates(daily_data)
    /\ (lastOp.date + lastOp.days) \in StoredDates(daily_data)
    /\ daily_data[lastOp.date].forecast # pre[lastOp.date].forecast

\* C9: called with start_date s, the forecast begins on that date: the i-th
\* returned value (i = 0..periods-1) is stored, integer-cast, in the forecast
\* column of the existing row dated s + i, and the returned list is
\* forecast_from_date(s, periods) over the data the call reads.
C9_ForecastBeginsOnStartDate ==
    AnchoredForecast =>
        /\ lastOp.forecast =
              forecast_from_date(GetDailyData(pre, lastOp.limit), lastOp.date,
                                 lastOp.days, lastOp.method, DefaultWindow).values
        /\ Len(lastOp.forecast) = lastOp.days
        /\ \A i \in 0..(lastOp.days - 1) :
            (lastOp.date + i) \in StoredDates(daily_data) =>
                ForecastIs(daily_data[lastOp.date + i], lastOp.forecast[i + 1])

\* an anchored forecast of two periods whose values have a fraction, stored
\* in the rows of the anchor and of the day after it
C9_Witness ==
    /\ AnchoredForecast
    /\ lastOp.days = 2
    /\ lastOp.forecast[1] % 100 # 0
    /\ lastOp.date \in StoredDates(daily_data)
    /\ (lastOp.date + 1) \in StoredDates(daily_data)
    /\ daily_data[lastOp.date + 1].forecast # pre[lastOp.date + 1].forecast

UnanchoredForecast ==
    /\ lastOp.op = "calculate_demand_forecast"
    /\ lastOp.date = NoDate
    /\ lastOp.ret = "forecast"

\* the latest date of the daily data the call read as history
LatestRead == SetMax(StoredDates(GetDailyData(pre, lastOp.limit)))

\* C10: called without start_date, the k-th forecast value (k = 1..periods)
\* is written to the row dated k days after the latest date of the daily
\* data read as history; a target date without a row is not created, and no
\* forecast outside the target dates changes.
C10_ForecastFollowsLatestDate ==
    UnanchoredForecast =>
        /\ StoredDates(daily_data) = StoredDates(pre)
        /\ \A d \in StoredDates(daily_data) :
            IF LatestRead < d /\ d <= LatestRead + lastOp.days
            THEN ForecastIs(daily_data[d], lastOp.forecast[d - LatestRead])
            ELSE daily_data[d].forecast = pre[d].forecast

\* a forecast without start_date of two periods: the first target date has a
\* row, which is rewritten, the second has none
C10_Witness ==
    /\ UnanchoredForecast
    /\ lastOp.days = 2
    /\ (LatestRead + 1) \in StoredDates(daily_data)
    /\ daily_data[LatestRead + 1].forecast # pre[LatestRead + 1].forecast
    /\ (LatestRead + 2) \notin StoredDates(daily_data)

ForecastFunctions ==
    {"moving_average_forecast", "exponential_smoothing_forecast", "forecast_from_date"}

\* the dates a persisting calculate_demand_forecast call targets
ForecastTargets ==
    IF lastOp.date # NoDate
    THEN lastOp.date..(lastOp.date + lastOp.days - 1)
    ELSE (LatestRead + 1)..(LatestRead + lastOp.days)

\* C11: no forecast operation changes authoritative data: the forecast_utils
\* computations leave every column of every row unchanged, and
\* calculate_demand_forecast changes only forecast values of its target
\* dates, never a demand, production_plan or inventory value nor the set of
\* stored dates.
C11_ForecastKeepsAuthoritativeData ==
    /\ lastOp.op \in ForecastFunctions => daily_data = pre
    /\ lastOp.op = "calculate_demand_forecast" =>
        /\ StoredDates(daily_data) = StoredDates(pre)
        /\ \A d \in StoredDates(daily_data) :
            /\ daily_data[d].demand = pre[d].demand
            /\ daily_data[d].production_plan = pre[d].production_plan
            /\ daily_data[d].inventory = pre[d].inventory
            /\ daily_data[d].forecast # pre[d].forecast =>
                  lastOp.ret = "forecast" /\ d \in ForecastTargets

\* a persisting forecast whose stored value differs from the demand, the
\* production plan and the inventory of the row it is written to
C11_Witness ==
    /\ lastOp.op = "calculate_demand_forecast"
    /\ lastOp.ret = "forecast"
    /\ \E d \in StoredDates(daily_data) :
            /\ daily_data[d].forecast # pre[d].forecast
            /\ daily_data[d].demand \notin daily_data[d].forecast
            /\ daily_data[d].production_plan \notin daily_data[d].forecast
            /\ daily_data[d].inventory \notin daily_data[d].forecast

\* C12: the value persisted into the forecast column is the integer
\* truncation int(x) of the corresponding returned value x (fraction dropped
\* toward zero, not rounded to the nearest integer), while the returned value
\* keeps its two decimals.
C12_PersistedIsTruncation ==
    (lastOp.op = "calculate_demand_forecast" /\ lastOp.ret = "forecast") =>
        \A d \in StoredDates(daily_data) \cap ForecastTargets :
            LET x == lastOp.forecast[d - SetMin(ForecastTargets) + 1]
                whole == IF x >= 0 THEN x - (x % 100) ELSE -((-x) - ((-x) % 100))
            IN  daily_data[d].forecast = {whole \div 100}

\* a persisted forecast whose returned value has the fraction .50: the row
\* holds the integer below it
C12_Witness ==
    /\ lastOp.op = "calculate_demand_forecast"
    /\ lastOp.ret = "forecast"
    /\ \E d \in StoredDates(daily_data) \cap ForecastTargets :
            LET x == lastOp.forecast[d - SetMin(ForecastTargets) + 1]
            IN  /\ x > 0
                /\ x % 100 = 50
                /\ daily_data[d].forecast = {(x - 50) \div 100}
                /\ daily_data[d].forecast # pre[d].forecast

ForecastCleared(d) ==
    /\ lastOp.date <= d
    /\ lastOp.end = NoDate \/ d <= lastOp.end

\* C13: clear_forecast_range(start, end) sets forecast to NULL for exactly
\* the stored rows with start <= date <= end (date >= start when end is
\* omitted; every row for clear_all_forecast) and leaves the forecast of
\* every other row and the demand, production_plan and inventory of all rows
\* unchanged.
C13_ClearForecastFrame ==
    lastOp.op \in {"clear_forecast_range", "clear_all_forecast"} =>
        /\ StoredDates(daily_data) = StoredDates(pre)
        /\ \A d \in StoredDates(daily_data) :
            /\ daily_data[d].demand = pre[d].demand
            /\ daily_data[d].production_plan = pre[d].production_plan
            /\ daily_data[d].inventory = pre[d].inventory
            /\ daily_data[d].forecast =
                  IF lastOp.op = "clear_all_forecast" \/ ForecastCleared(d)
                  THEN NULL ELSE pre[d].forecast

\* a range with an end date that cleared the forecast of the row on the end
\* date and kept the forecast of a row before the start date
C13_Witness ==
    /\ lastOp.op = "clear_forecast_range"
    /\ lastOp.end # NoDate
    /\ lastOp.end \in StoredDates(daily_data)
    /\ pre[lastOp.end].forecast # NULL
    /\ daily_data[lastOp.end].forecast = NULL
    /\ \E d \in StoredDates(daily_data) :
            d < lastOp.date /\ daily_data[d].forecast # NULL

GeneratedRange == lastOp.date..(lastOp.date + lastOp.days - 1)

\* C14: for generate_future_data(start, n), the first generated row's
\* inventory equals c + production_plan - demand, where c is the stored
\* inventory of the latest date before start (0 if there is none), and each
\* later generated row's inventory equals the previous generated row's
\* inventory + its production_plan - its demand.
C14_GeneratedInventoryIsCumulative ==
    lastOp.op = "generate_future_data" =>
        LET start == lastOp.date
            before == {p \in StoredDates(pre) :
                         p < start /\ \A e \in StoredDates(pre) : e < start => e <= p}
            flow(d) == daily_data[d].production_plan - daily_data[d].demand
        IN  /\ before = {} => daily_data[start].inventory = flow(start)
            /\ \A p \in before :
                  daily_data[start].inventory = pre[p].inventory + flow(start)
            /\ \A d \in GeneratedRange \ {start} :
                  daily_data[d].inventory = daily_data[d - 1].inventory + flow(d)

\* two generated days that follow a stored row of non-zero inventory, the
\* second with a flow of its own
C14_Witness ==
    /\ lastOp.op = "generate_future_data"
    /\ lastOp.days = 2
    /\ \E p \in StoredDates(pre) : p < lastOp.date /\ pre[p].inventory # 0
    /\ daily_data[lastOp.date + 1].inventory # daily_data[lastOp.date].inventory

\* C15: after generate_future_data(start, n) the store holds exactly one row
\* for each of the n consecutive dates start..start+n-1 (a date of the range
\* that existed is overwritten, never duplicated: the rows held are the rows
\* held before plus one per date that had none), and the set of stored dates
\* is the pre-call set united with the range.
C15_GenerateOneRowPerDate ==
    lastOp.op = "generate_future_data" =>
        /\ StoredDates(daily_data) = StoredDates(pre) \cup GeneratedRange
        /\ Cardinality(GeneratedRange) = lastOp.days
        /\ Cardinality(StoredDates(daily_data)) =
              Cardinality(StoredDates(pre)) + lastOp.value
        /\ \A d \in StoredDates(pre) \ GeneratedRange : daily_data[d] = pre[d]

\* a range of two dates, the first new and the second already stored with
\* other values, generated next to a stored date outside the range
C15_Witness ==
    /\ lastOp.op = "generate_future_data"
    /\ lastOp.days = 2
    /\ lastOp.date \notin StoredDates(pre)
    /\ (lastOp.date + 1) \in StoredDates(pre)
    /\ daily_data[lastOp.date + 1] # pre[lastOp.date + 1]
    /\ StoredDates(pre) \ GeneratedRange # {}

\* the rows forecast_from_date is to take its history from
AnchoredRows ==
    IF \A d \in StoredDates(pre) : lastOp.date < d THEN pre
    ELSE [d \in {e \in StoredDates(pre) : e <= lastOp.date} |-> pre[d]]

\* C16: forecast_from_date(anchor, ...) computes its forecast from exactly
\* the demand values of the stored rows with date <= anchor, in ascending
\* date order; when the anchor is earlier than the earliest stored date it
\* uses the demand of all stored rows.
C16_ForecastFromDateHistory ==
    lastOp.op = "forecast_from_date" =>
        LET expected == IF lastOp.method = "moving_average"
                        THEN moving_average_forecast(AnchoredRows, lastOp.window,
                                                     lastOp.days)
                        ELSE exponential_smoothing_forecast(AnchoredRows, lastOp.days)
        IN  /\ lastOp.forecast = expected.values
            /\ (lastOp.ret = "raised") = expected.raised

\* a moving average of window 1 anchored on a stored date between two others
\* of different demand: the forecast is the demand of the anchor's row
C16_Witness ==
    /\ lastOp.op = "forecast_from_date"
    /\ lastOp.method = "moving_average"
    /\ lastOp.window = 1
    /\ lastOp.date \in StoredDates(pre)
    /\ \E e, l \in StoredDates(pre) :
            /\ e < lastOp.date /\ lastOp.date < l
            /\ pre[e].demand # pre[lastOp.date].demand
            /\ pre[l].demand # pre[lastOp.date].demand
    /\ lastOp.forecast[1] = 100 * pre[lastOp.date].demand

\* the latest w stored dates
LastDates(t, w) ==
    {d \in StoredDates(t) : Cardinality({e \in StoredDates(t) : e > d}) < w}

RECURSIVE DemandOver(_, _)
DemandOver(t, S) ==
    IF S = {} THEN 0
    ELSE LET d == CHOOSE e \in S : TRUE
         IN  t[d].demand + DemandOver(t, S \ {d})

MovingAverageCall ==
    /\ lastOp.op = "moving_average_forecast"
    /\ StoredDates(pre) # {}

\* the number of values the mean is taken over: min(window, n)
MeanWidth ==
    IF Cardinality(StoredDates(pre)) < lastOp.window
    THEN Cardinality(StoredDates(pre)) ELSE lastOp.window

\* C17 as stated: moving_average_forecast(window, periods) on a non-empty
\* history of n demand values returns exactly `periods` identical values,
\* each the mean of the last min(window, n) demand values in ascending date
\* order (values are in hundredths: h is the mean when h * w = 100 * sum).
C17_ReturnsTheMean ==
    MovingAverageCall =>
        /\ lastOp.ret = "forecast"
        /\ Len(lastOp.forecast) = lastOp.days
        /\ \A i \in 1..Len(lastOp.forecast) :
              lastOp.forecast[i] * MeanWidth =
                  100 * DemandOver(pre, LastDates(pre, MeanWidth))
        /\ daily_data = pre

\* C17 amended: the `periods` identical values are the mean of the last
\* min(window, n) demand values rounded to two decimals: the returned value
\* is within half a hundredth of the mean.
C17_ReturnsTheMeanToTwoDecimals ==
    MovingAverageCall =>
        /\ lastOp.ret = "forecast"
        /\ Len(lastOp.forecast) = lastOp.days
        /\ \A i \in 1..Len(lastOp.forecast) :
              LET off == lastOp.forecast[i] * MeanWidth
                             - 100 * DemandOver(pre, LastDates(pre, MeanWidth))
              IN  2 * off <= MeanWidth /\ -2 * off <= MeanWidth
        /\ daily_data = pre

\* two periods of a window of 3 over three stored demands whose mean has
\* more than two decimals: the two values returned are the same rounded mean
C17_Witness ==
    /\ MovingAverageCall
    /\ lastOp.days = 2
    /\ lastOp.window = 3
    /\ Cardinality(StoredDates(pre)) = 3
    /\ lastOp.forecast[1] = lastOp.forecast[2]
    /\ 3 * lastOp.forecast[1] # 100 * DemandOver(pre, StoredDates(pre))

ForecastCalls == ForecastFunctions \cup {"calculate_demand_forecast"}

\* C18: when the table holds no demand history, every forecast function
\* returns an empty list and calculate_demand_forecast returns its no-data
\* error, without raising and without writing a forecast value.
C18_NoHistoryNoForecast ==
    (lastOp.op \in ForecastCalls /\ StoredDates(pre) = {}) =>
        /\ lastOp.forecast = <<>>
        /\ lastOp.ret = IF lastOp.op = "calculate_demand_forecast"
                        THEN "no_data" ELSE "empty"
        /\ daily_data = pre

\* an exponential smoothing forecast asked of the empty table through
\* calculate_demand_forecast
C18_Witness ==
    /\ lastOp.op = "calculate_demand_forecast"
    /\ lastOp.method = "exponential_smoothing"
    /\ lastOp.date = NoDate
    /\ StoredDates(pre) = {}
    /\ lastOp.ret = "no_data"

\* C19: get_stockouts() returns exactly the stored rows whose inventory is
\* <= 0 (zero included, positive excluded), each once, in ascending date
\* order, and changes nothing in the store.
C19_StockoutsAreNonPositiveRows ==
    lastOp.op = "get_stockouts" =>
        LET rows == lastOp.result
        IN  /\ {rows[i].date : i \in 1..Len(rows)} =
                  {d \in StoredDates(pre) : ~(pre[d].inventory > 0)}
            /\ \A i, j \in 1..Len(rows) : i < j => rows[i].date < rows[j].date
            /\ \A i \in 1..Len(rows) :
                  /\ rows[i].demand = pre[rows[i].date].demand
                  /\ rows[i].production_plan = pre[rows[i].date].production_plan
                  /\ rows[i].inventory = pre[rows[i].date].inventory
            /\ daily_data = pre

\* a query over a row of inventory 0, a row of negative inventory and a row
\* of positive inventory: two rows returned, the positive one left out
C19_Witness ==
    /\ lastOp.op = "get_stockouts"
    /\ Len(lastOp.result) = 2
    /\ \E z, n, p \in StoredDates(pre) :
            /\ pre[z].inventory = 0
            /\ pre[n].inventory < 0
            /\ pre[p].inventory > 0

\* C20: propose_production_plan_for_stockouts() returns exactly one proposal
\* per row returned by get_stockouts(), each with proposed_production_plan
\* equal to that row's demand, current_production_plan equal to that row's
\* stored production_plan and resulting_inventory 0, and does not modify the
\* store.
C20_ProposalsCoverStockouts ==
    lastOp.op = "propose_production_plan_for_stockouts" =>
        LET proposals == lastOp.result
            stockouts == GetStockouts(pre)
        IN  /\ Len(proposals) = Len(stockouts)
            /\ \A i \in 1..Len(proposals) :
                  /\ proposals[i].date = stockouts[i].date
                  /\ proposals[i].demand = stockouts[i].demand
                  /\ proposals[i].proposed_production_plan = stockouts[i].demand
                  /\ proposals[i].current_production_plan =
                        pre[stockouts[i].date].production_plan
                  /\ proposals[i].resulting_inventory = 0
            /\ daily_data = pre

\* proposals for two stockout rows, one of them with a stored plan that
\* differs from its demand, on a table that also holds a row in stock
C20_Witness ==
    /\ lastOp.op = "propose_production_plan_for_stockouts"
    /\ Len(lastOp.result) = 2
    /\ \E i \in 1..Len(lastOp.result) :
            lastOp.result[i].current_production_plan
                # lastOp.result[i].proposed_production_plan
    /\ \E p \in StoredDates(pre) : pre[p].inventory > 0

\* C23: in every state reachable through the public operations every stored
\* row has demand >= 0 and production_plan >= 0.
C23_ValuesNeverNegative ==
    \A d \in StoredDates(daily_data) :
        daily_data[d].demand >= 0 /\ daily_data[d].production_plan >= 0

\* C24: increase_all_demand(0) on any table, and increase_all_demand(k) on
\* an empty table, return an explanatory message and leave the store
\* completely unchanged: no demand written, no inventory recalculated.
C24_ZeroOffsetOrEmptyIsNoOp ==
    (/\ lastOp.op = "increase_all_demand"
     /\ lastOp.value = 0 \/ StoredDates(pre) = {}) =>
        /\ daily_data = pre
        /\ lastOp.ret = IF lastOp.value = 0 THEN "zero_offset" ELSE "no_data"

\* an offset of 0 given on a table that holds a row not satisfying the
\* inventory equation: a recalculation would have rewritten it
C24_Witness ==
    /\ lastOp.op = "increase_all_demand"
    /\ lastOp.value = 0
    /\ \E d \in StoredDates(daily_data) : ~InventoryHolds(daily_data, d)

\* C25: no operation other than delete_all_data removes a stored date (the
\* set of stored dates only grows between deletes); delete_all_data leaves
\* the table empty and reports the number of rows held just before the call.
C25_OnlyDeleteRemovesDates ==
    IF lastOp.op = "delete_all_data"
    THEN /\ StoredDates(daily_data) = {}
         /\ lastOp.value = Cardinality(StoredDates(pre))
    ELSE StoredDates(pre) \subseteq StoredDates(daily_data)

\* a delete of a table of three rows
C25_Witness ==
    /\ lastOp.op = "delete_all_data"
    /\ lastOp.value = 3
    /\ Cardinality(StoredDates(pre)) = 3
    /\ daily_data = <<>>

\* C28: for every proposal returned by
\* propose_production_plan_for_stockouts(), applying it with
\* update_production_plan(date, proposed_production_plan) makes the stored
\* inventory of that date equal to the proposal's resulting_inventory (0).
C28_AppliedProposalGivesResultingInventory ==
    lastOp.op = "propose_production_plan_for_stockouts" =>
        \A i \in 1..Len(lastOp.result) :
            LET proposal == lastOp.result[i]
                applied == UpdateProductionPlanResult(daily_data, proposal.date,
                                                      proposal.proposed_production_plan)
            IN  /\ proposal.resulting_inventory = 0
                /\ applied[proposal.date].inventory = proposal.resulting_inventory

\* C30: incremental recalculation agrees with full recalculation: on a
\* table whose rows before d satisfy the cumulative inventory equation
\* (carry-in 0 at the earliest date), recalculate_inventory_from(d) gives
\* every row the inventory that recalculating from the earliest stored date
\* gives it.
ConsistentBefore(t, d) ==
    \A e \in StoredDates(t) : e < d => InventoryHolds(t, e)

C30_IncrementalAgreesWithFull ==
    (/\ lastOp.op = "recalculate_inventory_from"
     /\ StoredDates(pre) # {}
     /\ ConsistentBefore(pre, lastOp.date)) =>
        daily_data = RecalculatedFrom(pre, SetMin(StoredDates(pre)))

\* a recalculation from a date that has a stored predecessor of non-zero
\* inventory, on a table consistent before that date and stale from it on
C30_Witness ==
    /\ lastOp.op = "recalculate_inventory_from"
    /\ ConsistentBefore(pre, lastOp.date)
    /\ \E p \in StoredDates(pre) : p < lastOp.date /\ pre[p].inventory # 0
    /\ \E d \in StoredDates(pre) : d >= lastOp.date /\ ~InventoryHolds(pre, d)
    /\ daily_data # pre

\* C21: if a storage failure occurs at any statement of
\* generate_future_data, of recalculate_inventory_from, or of an operation
\* that writes and then recalculates (update_demand, update_production_plan,
\* increase_all_demand), the table afterwards equals either its pre-call
\* state or the fully updated state: it is never left with demand or
\* production_plan changed while inventory is stale.
C21_FailureLeavesPreOrFullState ==
    lastOp.failed # "" =>
        \/ daily_data = pre
        \/ daily_data = lastOp.result

FailedRowWrite ==
    /\ lastOp.op = "generate_future_data"
    /\ lastOp.failed = "write"

BothReturned == \A c \in Callers : callers[c].pc = "returned"

\* C29: if two point updates on different dates d1 < d2 run concurrently
\* with their steps interleaved, then once both have returned the
\* cumulative inventory equation holds for every stored date >= d1.
C29_ConcurrentUpdatesKeepInventory ==
    BothReturned =>
        \A d \in StoredDates(daily_data) :
            (\E c \in Callers : callers[c].date <= d) =>
                InventoryHolds(daily_data, d)

AgentDateCalls ==
    {"agent_get_daily_data", "agent_update_demand", "agent_update_production_plan",
     "agent_generate_future_data"}

\* the numbers of a date string read as the calendar date they write: year
\* first in the ISO form, day first in the legacy form
CalendarDate(fields) ==
    IF fields[1] >= 1000 THEN fields ELSE <<fields[3], fields[2], fields[1]>>

IsIsoKey(k) ==
    /\ Len(k) = 3
    /\ k[1] >= 1000 /\ k[1] <= 9999
    /\ k[2] >= 1 /\ k[2] <= 12
    /\ k[3] >= 1 /\ k[3] <= 31

\* C26: every date key the tool operations write to the store is in the
\* ISO YYYY-MM-DD form, and a date given in the legacy DD-MM-YYYY form to
\* get_daily_data, update_demand, update_production_plan or
\* generate_future_data addresses the same row as its ISO equivalent; no
\* operation stores a DD-MM-YYYY key.
C26_DateKeysAreIso ==
    lastOp.op \in AgentDateCalls =>
        LET iso == CalendarDate(lastOp.input.fields)
            day == iso[3]
        IN  /\ IsIsoKey(lastOp.key)
            /\ lastOp.key = iso
            /\ StoredDates(daily_data) \subseteq 1..31
            /\ lastOp.op = "agent_get_daily_data" =>
                  /\ daily_data = pre
                  /\ {lastOp.result[i].date : i \in 1..Len(lastOp.result)} =
                        {day} \cap StoredDates(pre)
            /\ lastOp.op = "agent_update_demand" =>
                  daily_data = ToolUpdateDemandResult(pre, day, lastOp.value)
            /\ lastOp.op = "agent_update_production_plan" =>
                  daily_data = ToolUpdateProductionPlanResult(pre, day, lastOp.value)
            /\ lastOp.op = "agent_generate_future_data" =>
                  StoredDates(daily_data) =
                      StoredDates(pre) \cup (day..(day + lastOp.days - 1))

\* a demand update given the legacy form of the date of a stored row: the
\* row's demand is rewritten
C26_Witness ==
    /\ lastOp.op = "agent_update_demand"
    /\ lastOp.input.fields[3] >= 1000
    /\ lastOp.input.fields[1] \in StoredDates(pre)
    /\ lastOp.ret = "updated"
    /\ daily_data[lastOp.input.fields[1]].demand = lastOp.value
    /\ pre[lastOp.input.fields[1]].demand # lastOp.value

JulyWords ==
    {<<"J", "u", "l", "y">>, <<"j", "u", "l", "y">>, <<"J", "U", "L", "Y">>}
MarchWords == {<<"M", "a", "r", "c", "h">>, <<"m", "a", "r", "c", "h">>}

\* C27: parse_date maps a month name optionally followed by a four-digit
\* year, in any case ('July 2024', 'july 2024'), to the ISO date of the
\* first day of that month ('2024-07-01').
C27_MonthNameIsFirstOfMonth ==
    (/\ lastOp.op = "parse_date"
     /\ lastOp.input.word \in JulyWords \cup MarchWords) =>
        /\ lastOp.ret = "parsed"
        /\ Len(lastOp.key) = 3
        /\ lastOp.key[2] = IF lastOp.input.word \in JulyWords THEN 7 ELSE 3
        /\ lastOp.key[3] = 1
        /\ lastOp.input.fields # <<>> => lastOp.key[1] = lastOp.input.fields[1]

\* 'july 2024' in lower case parsed to 2024-07-01
C27_Witness ==
    /\ lastOp.op = "parse_date"
    /\ lastOp.input = DateString(<<"j", "u", "l", "y">>, <<2024>>)
    /\ lastOp.key = <<2024, 7, 1>>
====
